---- MODULE Spec2Model ----
(***************************************************************************)
(* Model of the two programs of the repository:                            *)
(*   Lab_3-1.cpp  an AVL tree of doubles and its main();                   *)
(*   Lab_3-2.cpp  the same AVL tree over person records (ordered by the    *)
(*                number field), removal by first/last name, and a         *)
(*                two-level hash table whose slots are AVL trees.          *)
(* Nodes live in a heap: a sequence of cells addressed 1..Len, NULL = 0.   *)
(* Every recursive routine of the source takes the heap and returns the    *)
(* heap it leaves together with its return value.                          *)
(* The AVL code of Lab_3-1.cpp (lines 89-258) is, statement for statement, *)
(* the AVL code of Lab_3-2.cpp (lines 96-298) with `double val` in place   *)
(* of `person val` and `v < node->val` in place of                         *)
(* `v.number < node->val.number`; one translation serves both, a double    *)
(* being the record [number |-> d].                                        *)
(***************************************************************************)
EXTENDS Integers, Sequences, FiniteSets, TLC

VARIABLES
    mem1,     \* Lab_3-1: the heap of tNode cells
    head1,    \* Lab_3-1: AVL::head of main's tree
    run1,     \* Lab_3-1: "running", or how the process ended
    step1,    \* Lab_3-1: the calls made so far are the first step1 calls main
              \*          makes that change the tree (OffScript: they are not)
    mem,      \* Lab_3-2: the heap of tNode cells of one AVL object
    head,     \* Lab_3-2: AVL::head of that object
    last,     \* Lab_3-2: the last public call on it: argument, output, result
              \*          (for remove: how many children the removed node had)
    tmem,     \* Lab_3-2: the heap of tNode cells of main's two-level table
    table,    \* Lab_3-2: table[i][j] is the head of the AVL in slot j of the
              \*          inner table in slot i of the outer table
    inserted, \* Lab_3-2: the records main has passed to insert through table
    ht,       \* Lab_3-2: one hashTable object: whether it is constructed, the
              \*          argument of its constructor, its len, and whether
              \*          char is a signed type in the build that compiled it
    calls,    \* Lab_3-2: calls[key] is what the calls ht.retrieve(key) made so
              \*          far computed, in order: hash(key) and the index
    np        \* Lab_3-2: the last call of next_prime: argument and result

vars == <<mem1, head1, run1, step1, mem, head, last, tmem, table, inserted,
          ht, calls, np>>

----------------------------------------------------------------------------
(* Bounds of the model. *)

\* person numbers are 1..MaxNum
MaxNum == 4

----------------------------------------------------------------------------
(* Strings are sequences of bytes. *)

NONE == <<78, 79, 78, 69>>
Lucas == <<76, 117, 99, 97, 115>>
Liam == <<76, 105, 97, 109>>
Zoe == <<90, 111, 101>>
Li == <<76, 105>>
Anderson == <<65, 110, 100, 101, 114, 115, 111, 110>>

\* person::person(fn, ln, num)
person(fn, ln, num) == [first_name |-> fn, last_name |-> ln, number |-> num]

\* The number field is a string in the source; the numbers of the model are
\* the fixed-width digit strings whose std::string order is the order of
\* 1..MaxNum, and "NONE" (which sorts after every digit string) is NoneNum.
NoneNum == MaxNum + 1

\* person(): the default-constructed record retrieve returns when not found
NotFound == person(NONE, NONE, NoneNum)

----------------------------------------------------------------------------
(* The heap. *)

NULL == 0

max(a, b) == IF a > b THEN a ELSE b

SetMin(S) == CHOOSE x \in S : \A y \in S : x <= y

\* a cell after delete: its content is no longer the program's
FreedCell == [alloc |-> FALSE, left |-> NULL, right |-> NULL,
              val |-> [number |-> 0], height |-> 0]

\* new tNode(v): left(nullptr), right(nullptr), val(v), height(1), at the
\* lowest free address
tNode(h, v) ==
    LET free == {i \in 1..Len(h) : ~h[i].alloc}
        a == IF free = {} THEN Len(h) + 1 ELSE SetMin(free)
        cell == [alloc |-> TRUE, left |-> NULL, right |-> NULL,
                 val |-> v, height |-> 1]
    IN  [h |-> IF a > Len(h) THEN Append(h, cell) ELSE [h EXCEPT ![a] = cell],
         r |-> a]

\* delete temp
delete(h, a) == [h EXCEPT ![a] = FreedCell]

\* int AVL::height(tNode* node)
height(h, node) == IF node = NULL THEN 0 ELSE h[node].height

\* int AVL::getBalance(tNode* node)
getBalance(h, node) ==
    IF node = NULL THEN 0
    ELSE height(h, h[node].left) - height(h, h[node].right)

\* int hl = height(n->left), hr = height(n->right);
\* n->height = (hl > hr ? hl : hr) + 1;
updateHeight(h, n) ==
    [h EXCEPT ![n].height = max(height(h, h[n].left), height(h, h[n].right)) + 1]

\* tNode* AVL::rotateRight(tNode* y): the height of y, then the height of x
rotateRight(h, y) ==
    LET x == h[y].left
        T2 == h[x].right
    IN  [h |-> updateHeight(
                   updateHeight([h EXCEPT ![x].right = y, ![y].left = T2], y), x),
         r |-> x]

\* tNode* AVL::rotateLeft(tNode* x): the height of y is assigned first, from
\* the height x still caches from before the rotation, then the height of x
rotateLeft(h, x) ==
    LET y == h[x].right
        T2 == h[y].left
    IN  [h |-> updateHeight(
                   updateHeight([h EXCEPT ![y].left = x, ![x].right = T2], y), x),
         r |-> y]

\* node->left = s, where s is what the call on the left subtree returned
setLeft(s, node) == [s.h EXCEPT ![node].left = s.r]

\* node->right = s, where s is what the call on the right subtree returned
setRight(s, node) == [s.h EXCEPT ![node].right = s.r]

\* tNode* AVL::balance(tNode* node)
balance(h, node) ==
    LET balanceFactor == getBalance(h, node)
    IN  IF balanceFactor > 1
        THEN IF getBalance(h, h[node].left) >= 0
             THEN rotateRight(h, node)
             ELSE rotateRight(setLeft(rotateLeft(h, h[node].left), node), node)
        ELSE IF balanceFactor < -1
        THEN IF getBalance(h, h[node].right) <= 0
             THEN rotateLeft(h, node)
             ELSE rotateLeft(setRight(rotateRight(h, h[node].right), node), node)
        ELSE [h |-> h, r |-> node]

\* the tail shared by insertRec, removeRec and removeRecFL:
\*   node->height = 1 + (hl > hr ? hl : hr); return balance(node);
updateAndBalance(h, node) == balance(updateHeight(h, node), node)

\* what insertRec and removeRec return: b is what balance returned, out is
\* what was printed on the way
returned(b, out) == [h |-> b.h, r |-> b.r, out |-> out]

\* an insertRec that drops the assignment `node->left =` of the left descent
RECURSIVE insertRecMut(_, _, _)
insertRecMut(h, node, v) ==
    IF node = NULL
    THEN returned(tNode(h, v), <<>>)
    ELSE IF v.number < h[node].val.number
    THEN LET s == insertRecMut(h, h[node].left, v)
         IN  returned(updateAndBalance(s.h, node), s.out)
    ELSE IF v.number > h[node].val.number
    THEN LET s == insertRecMut(h, h[node].right, v)
         IN  returned(updateAndBalance(setRight(s, node), node), s.out)
    ELSE [h |-> h, r |-> node, out |-> <<"Already present, no insert.">>]

\* tNode* AVL::insertRec(tNode* node, const person& v); out is what it prints
RECURSIVE insertRec(_, _, _)
insertRec(h, node, v) ==
    IF node = NULL
    THEN returned(tNode(h, v), <<>>)
    ELSE IF v.number < h[node].val.number
    THEN LET s == insertRec(h, h[node].left, v)
         IN  returned(updateAndBalance(setLeft(s, node), node), s.out)
    ELSE IF v.number > h[node].val.number
    THEN LET s == insertRec(h, h[node].right, v)
         IN  returned(updateAndBalance(setRight(s, node), node), s.out)
    ELSE [h |-> h, r |-> node, out |-> <<"Already present, no insert.">>]

\* person AVL::retrieveRec(tNode* node, const string& v); nf is the value the
\* source returns at a null node (person() in Lab_3-2, NAN in Lab_3-1)
RECURSIVE retrieveRec(_, _, _, _)
retrieveRec(h, node, v, nf) ==
    IF node = NULL THEN nf
    ELSE IF v = h[node].val.number THEN h[node].val
    ELSE IF v < h[node].val.number THEN retrieveRec(h, h[node].left, v, nf)
    ELSE retrieveRec(h, h[node].right, v, nf)

\* a findMin that does not descend to the left
findMinMut(h, node) == node

\* tNode* AVL::findMin(tNode* node)
RECURSIVE findMin(_, _)
findMin(h, node) ==
    IF h[node].left # NULL THEN findMin(h, h[node].left) ELSE node

\* a splice that deletes the only child without `*node = *temp`
spliceOutNoCopy(h, node) ==
    LET temp == IF h[node].left # NULL THEN h[node].left ELSE h[node].right
    IN  IF temp = NULL
        THEN [h |-> delete(h, node), r |-> NULL, freed |-> node]
        ELSE [h |-> delete(h, temp), r |-> node, freed |-> temp]

\* a splice that leaves a node without children where it is
spliceOutMut(h, node) ==
    LET temp == IF h[node].left # NULL THEN h[node].left ELSE h[node].right
    IN  IF temp = NULL
        THEN [h |-> h, r |-> node, freed |-> NULL]
        ELSE [h |-> delete([h EXCEPT ![node] = h[temp]], temp), r |-> node,
              freed |-> temp]

\* the block `if (!node->left || !node->right) { ... delete temp; }` shared by
\* removeRec and removeRecFL: r is the value of `node` after it
spliceOut(h, node) ==
    LET temp == IF h[node].left # NULL THEN h[node].left ELSE h[node].right
    IN  IF temp = NULL
        THEN [h |-> delete(h, node), r |-> NULL, freed |-> node]
        ELSE [h |-> delete([h EXCEPT ![node] = h[temp]], temp), r |-> node,
              freed |-> temp]

\* the tail of removeRec and removeRecFL after the splice s:
\*   if (!node) return node; ... return balance(node);
afterSplice(s) ==
    IF s.r = NULL THEN [h |-> s.h, r |-> NULL] ELSE updateAndBalance(s.h, s.r)

\* a removal that leaves out `node->val = temp->val`
copyValMut(h, node, temp) == h

\* node->val = temp->val
copyVal(h, node, temp) == [h EXCEPT ![node].val = h[temp].val]

\* tNode* AVL::removeRec(tNode* node, const string& v); out is what it prints
RECURSIVE removeRec(_, _, _)
removeRec(h, node, v) ==
    IF node = NULL
    THEN [h |-> h, r |-> NULL, out |-> <<"Node not found!">>]
    ELSE IF v < h[node].val.number
    THEN LET s == removeRec(h, h[node].left, v)
         IN  returned(updateAndBalance(setLeft(s, node), node), s.out)
    ELSE IF v > h[node].val.number
    THEN LET s == removeRec(h, h[node].right, v)
         IN  returned(updateAndBalance(setRight(s, node), node), s.out)
    ELSE IF h[node].left = NULL \/ h[node].right = NULL
    THEN returned(afterSplice(spliceOut(h, node)), <<>>)
    ELSE LET temp == findMin(h, h[node].right)
             s == removeRec(copyVal(h, node, temp), h[node].right,
                            h[temp].val.number)
         IN  returned(updateAndBalance(setRight(s, node), node), s.out)

\* What a read through a `const string&` parameter of removeRecFL yields.
\* ref.node = NULL: the parameter is bound to the caller's own strings
\* ref.fn, ref.ln.  Otherwise it is bound to the first_name and last_name of
\* the cell ref.node (line 210 passes temp->val.first_name and
\* temp->val.last_name by reference): the read yields what that cell holds
\* now, and once the cell is deleted the reference dangles and the read
\* yields dang, any value at all.
readFL(h, ref, dang) ==
    IF ref.node = NULL THEN <<ref.fn, ref.ln>>
    ELSE IF h[ref.node].alloc
    THEN <<h[ref.node].val.first_name, h[ref.node].val.last_name>>
    ELSE dang

\* the read of fn and ln in heap h goes through a dangling reference
dangles(h, ref) == ref.node # NULL /\ ~h[ref.node].alloc

\* what removeRecFL returns: b is what balance returned
returnedFL(b, ub) == [h |-> b.h, r |-> b.r, ub |-> ub]

RECURSIVE removeRecFL(_, _, _, _)

\* removeRecFL from `if (fn == node->val.first_name && ...)` on, in the heap
\* h the two descents left; ub: a dangling read took place so far
matchFL(h, node, ref, dang, ub) ==
    IF readFL(h, ref, dang) = <<h[node].val.first_name, h[node].val.last_name>>
    THEN IF h[node].left = NULL \/ h[node].right = NULL
         THEN returnedFL(afterSplice(spliceOut(h, node)), ub)
         ELSE LET temp == findMin(h, h[node].right)
                  s == removeRecFL(copyVal(h, node, temp), h[node].right,
                                   [node |-> temp], dang)
              IN  returnedFL(updateAndBalance(setRight(s, node), node),
                             ub \/ s.ub)
    ELSE returnedFL(updateAndBalance(h, node), ub)

\* node->right = removeRecFL(node->right, fn, ln) and what follows it, after
\* sl, the descent to the left
rightFL(sl, node, ref, dang) ==
    LET h1 == setLeft(sl, node)
        sr == removeRecFL(h1, h1[node].right, ref, dang)
    IN  matchFL(setRight(sr, node), node, ref, dang,
                sl.ub \/ sr.ub \/ dangles(setRight(sr, node), ref))

\* tNode* AVL::removeRecFL(tNode* node, const string& fn, const string& ln);
\* ub: a read through a dangling reference took place
removeRecFL(h, node, ref, dang) ==
    IF node = NULL THEN [h |-> h, r |-> NULL, ub |-> FALSE]
    ELSE rightFL(removeRecFL(h, h[node].left, ref, dang), node, ref, dang)

\* void AVL::printHelp(tNode* node, const string& first_name): the records it
\* writes, in order; the filter " " (the default argument) writes every one
RECURSIVE printHelp(_, _, _)
printHelp(h, node, first_name) ==
    (IF h[node].left # NULL THEN printHelp(h, h[node].left, first_name) ELSE <<>>)
    \o (IF first_name = <<32>> \/ first_name = h[node].val.first_name
        THEN <<h[node].val>> ELSE <<>>)
    \o (IF h[node].right # NULL THEN printHelp(h, h[node].right, first_name) ELSE <<>>)

----------------------------------------------------------------------------
(* Addresses.  The program compares a tNode* only with nullptr, so a heap  *)
(* is kept up to a renaming of its addresses: after a public call the      *)
(* cells are numbered in the pre-order of the trees that hold them, cells  *)
(* no tree reaches (leaked) follow in address order, and freed cells that  *)
(* nothing points to are dropped.                                          *)

RECURSIVE walk(_, _, _)
walk(h, stack, seen) ==
    IF stack = <<>> THEN seen
    ELSE LET n == Head(stack)
         IN  IF n = NULL \/ (\E i \in 1..Len(seen) : seen[i] = n)
             THEN walk(h, Tail(stack), seen)
             ELSE walk(h, <<h[n].left, h[n].right>> \o Tail(stack), Append(seen, n))

RECURSIVE ascending(_)
ascending(S) ==
    IF S = {} THEN <<>> ELSE <<SetMin(S)>> \o ascending(S \ {SetMin(S)})

NonNull(a) == a # NULL

renumber(h, roots, ord) ==
    LET pos(a) == IF a = NULL THEN NULL ELSE CHOOSE i \in 1..Len(ord) : ord[i] = a
    IN  [h |-> [i \in 1..Len(ord) |->
                   [h[ord[i]] EXCEPT !.left = pos(@), !.right = pos(@)]],
         roots |-> [i \in 1..Len(roots) |-> pos(roots[i])]]

Canon(h, roots) ==
    renumber(h, roots,
             walk(h, SelectSeq(roots, NonNull)
                     \o ascending({i \in 1..Len(h) : h[i].alloc}), <<>>))

----------------------------------------------------------------------------
(* Lab_3-2.cpp: one AVL object under its public interface. *)

\* the (first_name, last_name) pairs of the records of the model
Names == {<<Lucas, Li>>, <<Liam, Anderson>>}

Numbers == 1..MaxNum

\* the strings printFN is called with: the first names stored, a first name
\* never stored, and the one-blank string
Filters == {nm[1] : nm \in Names} \cup {Zoe, <<32>>}

Persons == {person(nm[1], nm[2], n) : nm \in Names, n \in Numbers}

\* what a read through a dangling reference may yield: any of the names, or
\* bytes that are none of them
DanglingReads == Names \cup {<<<<0>>, <<0>>>>}

Call(op, arg, out, ret) == [op |-> op, arg |-> arg, out |-> out, ret |-> ret]

Lab1Vars == <<mem1, head1, run1, step1>>
AVLVars == <<mem, head, last>>
TableVars == <<tmem, table, inserted>>
HashVars == <<ht, calls, np>>

\* the heap c.h and the head in it, with what the call printed
headOut(c, out) == [h |-> c.h, head |-> c.roots[1], out |-> out]

\* head = insertRec(head, v); head = removeRec(head, t)
assignHead(s) == headOut(Canon(s.h, <<s.r>>), s.out)

\* the heap c.h and the head in it, with the flag of removeRecFL
headUb(c, ub) == [h |-> c.h, head |-> c.roots[1], ub |-> ub]

\* head = removeRecFL(head, fn, ln)
assignHeadFL(s) == headUb(Canon(s.h, <<s.r>>), s.ub)

\* void AVL::insert(const person& v): head = insertRec(head, v)
insert(h, hd, v) == assignHead(insertRec(h, hd, v))

\* person AVL::retrieve(const string& t): return retrieveRec(head, t)
retrieve(h, hd, t) == retrieveRec(h, hd, t, NotFound)

\* void AVL::remove(const string& t): head = removeRec(head, t)
remove(h, hd, t) == assignHead(removeRec(h, hd, t))

\* void AVL::removeFL(const string& fn, const string& ln):
\* head = removeRecFL(head, fn, ln)
removeFL(h, hd, fn, ln, dang) ==
    assignHeadFL(removeRecFL(h, hd, [node |-> NULL, fn |-> fn, ln |-> ln], dang))

\* void AVL::printAll(): if (head) printHelp(head)
printAll(h, hd) == IF hd # NULL THEN printHelp(h, hd, <<32>>) ELSE <<>>

\* void AVL::printFN(const string& first_name): if (head) printHelp(head, first_name)
printFN(h, hd, first_name) ==
    IF hd # NULL THEN printHelp(h, hd, first_name) ELSE <<>>

\* how many children the node that holds t has (NoneNum: no node holds t):
\* which branch of removeRec the call remove(t) is about to take
RECURSIVE childrenOf(_, _, _)
childrenOf(h, node, t) ==
    IF node = NULL THEN NoneNum
    ELSE IF t < h[node].val.number THEN childrenOf(h, h[node].left, t)
    ELSE IF t > h[node].val.number THEN childrenOf(h, h[node].right, t)
    ELSE (IF h[node].left # NULL THEN 1 ELSE 0)
         + (IF h[node].right # NULL THEN 1 ELSE 0)

\* the public calls on the AVL object
Insert(p) ==
    \E s \in {insert(mem, head, p)} :
        /\ mem' = s.h
        /\ head' = s.head
        /\ last' = Call("insert", p, s.out, 0)
        /\ UNCHANGED <<Lab1Vars, TableVars, HashVars>>

Retrieve(t) ==
    /\ last' = Call("retrieve", t, <<>>, retrieve(mem, head, t))
    /\ UNCHANGED <<mem, head, Lab1Vars, TableVars, HashVars>>

Remove(t) ==
    \E s \in {remove(mem, head, t)} :
        /\ mem' = s.h
        /\ head' = s.head
        /\ last' = Call("remove", t, s.out, childrenOf(mem, head, t))
        /\ UNCHANGED <<Lab1Vars, TableVars, HashVars>>

RemoveFL(fn, ln, dang) ==
    \E s \in {removeFL(mem, head, fn, ln, dang)} :
        /\ mem' = s.h
        /\ head' = s.head
        /\ last' = Call("removeFL", <<fn, ln>>, <<>>, s.ub)
        /\ UNCHANGED <<Lab1Vars, TableVars, HashVars>>

PrintAll ==
    /\ last' = Call("printAll", 0, printAll(mem, head), 0)
    /\ UNCHANGED <<mem, head, Lab1Vars, TableVars, HashVars>>

PrintFN(first_name) ==
    /\ last' = Call("printFN", first_name, printFN(mem, head, first_name), 0)
    /\ UNCHANGED <<mem, head, Lab1Vars, TableVars, HashVars>>

----------------------------------------------------------------------------
(* Lab_3-2.cpp: the sizing of a hash table. *)

\* (int) std::sqrt(n): the integer part of the square root
RECURSIVE sqrtFrom(_, _)
sqrtFrom(n, r) == IF (r + 1) * (r + 1) > n THEN r ELSE sqrtFrom(n, r + 1)

isqrt(n) == sqrtFrom(n, 0)

\* the inner loop of generate_small_primes: is i divisible by none of the
\* primes found so far whose square does not exceed i, taken in order from k
RECURSIVE noSmallDivisor(_, _, _)
noSmallDivisor(i, primes, k) ==
    IF k > Len(primes) THEN TRUE
    ELSE IF primes[k] * primes[k] > i THEN TRUE
    ELSE IF i % primes[k] = 0 THEN FALSE
    ELSE noSmallDivisor(i, primes, k + 1)

\* the outer loop of generate_small_primes, from candidate i on
RECURSIVE smallPrimesFrom(_, _, _)
smallPrimesFrom(i, limit, primes) ==
    IF i > limit THEN primes
    ELSE smallPrimesFrom(i + 2, limit,
             IF noSmallDivisor(i, primes, 1) THEN Append(primes, i) ELSE primes)

\* a generate_small_primes whose loop runs while i < limit, not i <= limit
generate_small_primesMut(limit) == smallPrimesFrom(3, limit - 1, <<2>>)

\* std::vector<int>* generate_small_primes(int limit)
generate_small_primes(limit) == smallPrimesFrom(3, limit, <<2>>)

\* the loop of is_prime over the list, from index k
RECURSIVE noListedDivisor(_, _, _, _)
noListedDivisor(num, primes, limit, k) ==
    IF k > Len(primes) THEN TRUE
    ELSE IF primes[k] > limit THEN TRUE
    ELSE IF num % primes[k] = 0 THEN FALSE
    ELSE noListedDivisor(num, primes, limit, k + 1)

\* bool is_prime(int num, const std::vector<int>* primes)
is_prime(num, primes) ==
    IF num <= 1 THEN FALSE
    ELSE IF num = 2 THEN TRUE
    ELSE IF num % 2 = 0 THEN FALSE
    ELSE noListedDivisor(num, primes, isqrt(num), 1)

\* the while loop of next_prime
RECURSIVE firstPrimeFrom(_, _)
firstPrimeFrom(n, small_primes) ==
    IF is_prime(n, small_primes) THEN n ELSE firstPrimeFrom(n + 2, small_primes)

\* int next_prime(int n)
next_prime(n) ==
    IF n <= 2 THEN 2
    ELSE LET m == IF n % 2 = 0 THEN n + 1 ELSE n
         IN  firstPrimeFrom(m, generate_small_primes(isqrt(m) + 1))

\* a conversion that rounds up to the next integer
truncatedMut(num, den) ==
    IF num >= 0 THEN (num + den - 1) \div den ELSE 0 - ((0 - num) \div den)

\* the conversion of the double expElementCt / 0.75 + 1 to the int parameter
\* of next_prime: the fraction is dropped, towards zero
truncated(num, den) ==
    IF num >= 0 THEN num \div den ELSE 0 - ((0 - num) \div den)

\* hashTable::hashTable(int expElementCt): the value of len
tableLen(expElementCt) == next_prime(truncated(4 * expElementCt + 3, 3))

----------------------------------------------------------------------------
(* Lab_3-2.cpp: the hash function.  An unsigned long long is its eight     *)
(* bytes, least significant first.                                         *)

RECURSIVE xor8(_, _)
xor8(a, b) ==
    IF a = 0 THEN b
    ELSE IF b = 0 THEN a
    ELSE ((a + b) % 2) + 2 * xor8(a \div 2, b \div 2)

\* const unsigned long long fnv_prime = 1099511628211ULL = 2^40 + 435
fnv_prime_low == 435

\* unsigned long long hash = 14695981039346656037ULL
fnv_offset_basis == <<37, 35, 34, 132, 228, 156, 242, 203>>

\* hash ^= c: the char c is converted to unsigned long long; where char is a
\* signed type a byte above 127 is a negative char, whose conversion sets
\* all the upper bytes
RECURSIVE xorFrom(_, _, _, _)
xorFrom(hsh, c, charSigned, k) ==
    IF k > 8 THEN <<>>
    ELSE <<IF k = 1 THEN xor8(hsh[1], c)
           ELSE IF charSigned /\ c > 127 THEN xor8(hsh[k], 255)
           ELSE hsh[k]>> \o xorFrom(hsh, c, charSigned, k + 1)

xorChar(hsh, c, charSigned) == xorFrom(hsh, c, charSigned, 1)

\* hash *= fnv_prime, modulo 2^64: byte k of hash * (2^40 + 435) is byte k of
\* hash * 435 plus byte k - 5 of hash plus the carry from byte k - 1
RECURSIVE timesFrom(_, _, _)
timesFrom(hsh, k, carry) ==
    IF k > 8 THEN <<>>
    ELSE LET col == hsh[k] * fnv_prime_low
                    + (IF k > 5 THEN hsh[k - 5] ELSE 0) + carry
         IN  <<col % 256>> \o timesFrom(hsh, k + 1, col \div 256)

timesPrime(hsh) == timesFrom(hsh, 1, 0)

\* the loop of hashTable::hash over the characters of key, from index k
RECURSIVE hashFrom(_, _, _, _)
hashFrom(hsh, key, k, charSigned) ==
    IF k > Len(key) THEN hsh
    ELSE hashFrom(timesPrime(xorChar(hsh, key[k], charSigned)), key, k + 1, charSigned)

\* unsigned long long hashTable::hash(string key)
hash(key, charSigned) == hashFrom(fnv_offset_basis, key, 1, charSigned)

\* x % len for an unsigned long long x
RECURSIVE modFrom(_, _, _)
modFrom(x, len, k) ==
    IF k > 8 THEN 0 ELSE (x[k] + 256 * modFrom(x, len, k + 1)) % len

\* an index taken modulo len + 1
slotOfMut(key, len, charSigned) == modFrom(hash(key, charSigned), len + 1, 1)

\* the index in `table[hash(key) % len]` of hashTable::retrieve
slotOf(key, len, charSigned) == modFrom(hash(key, charSigned), len, 1)

----------------------------------------------------------------------------
(* Lab_3-2.cpp: main's table, hashTable<hashTable<AVL>> table(11).         *)

\* main: `hashTable<hashTable<AVL>> table(11)`
MainExpElementCt == 11

\* the default argument of hashTable(int expElementCT = 6), which sizes every
\* inner table of `new cldManage[len]`
DefaultExpElementCt == 6

OuterLen == tableLen(MainExpElementCt)

InnerLen == tableLen(DefaultExpElementCt)

\* the names of main's records are ASCII: the signedness of char plays no part
outerSlot(first_name) == slotOf(first_name, OuterLen, TRUE)

innerSlot(last_name) == slotOf(last_name, InnerLen, TRUE)

\* every head of the table, slot by slot
tableRoots(t) ==
    [k \in 1..(OuterLen * InnerLen) |->
        t[(k - 1) \div InnerLen][(k - 1) % InnerLen]]

\* the numbers of the records main inserts
MaxTNum == 2

TNames == {<<Lucas, Li>>, <<Liam, Li>>, <<Zoe, Li>>}

TPersons == {person(nm[1], nm[2], n) : nm \in TNames, n \in 1..MaxTNum}

\* cldManage& hashTable::retrieve(string key), twice: the slot of the AVL
\* that table.retrieve(first_name).retrieve(last_name) returns
retrieveSlot(first_name, last_name) ==
    <<outerSlot(first_name), innerSlot(last_name)>>

\* the heap c.h and the heads of the table's trees in it
tableOut(c, out) ==
    [h |-> c.h,
     table |-> [a \in 0..(OuterLen - 1) |-> [b \in 0..(InnerLen - 1) |->
                   c.roots[a * InnerLen + b + 1]]],
     out |-> out]

\* head = insertRec(head, v) in the AVL at slot `at` of the table
assignHeadAt(t, at, s) ==
    tableOut(Canon(s.h, tableRoots([t EXCEPT ![at[1]][at[2]] = s.r])), s.out)

\* void AVL::insert(const person& v) on the AVL at slot `at` of the table
insertAt(h, t, at, p) == assignHeadAt(t, at, insertRec(h, t[at[1]][at[2]], p))

\* main: table.retrieve(first_name).retrieve(last_name).insert(temp)
tableInsert(h, t, p) ==
    insertAt(h, t, retrieveSlot(p.first_name, p.last_name), p)

TableInsert(p) ==
    \E s \in {tableInsert(tmem, table, p)} :
        /\ tmem' = s.h
        /\ table' = s.table
        /\ inserted' = inserted \cup {p}
        /\ UNCHANGED <<Lab1Vars, AVLVars, HashVars>>

----------------------------------------------------------------------------
(* Lab_3-2.cpp: one hashTable object, and calls of next_prime. *)

\* the arguments of the constructor are -MaxExp..MaxExp
MaxExp == 12

\* a key is passed to retrieve at most MaxCalls times
MaxCalls == 2

\* the arguments of next_prime are 0..MaxPrimeArg
MaxPrimeArg == 120

\* keys: the empty string, an ASCII name, and strings with bytes above 127
\* (the two bytes of a UTF-8 letter; 0x80; 0xFF 0x01)
Keys == {<<>>, Liam, <<195, 169>>, <<128>>, <<255, 1>>}

\* hashTable::hashTable(int expElementCt), compiled with char signed or not:
\* len = next_prime(expElementCt / 0.75 + 1); table = new cldManage[len]
HashTable(expElementCt, charSigned) ==
    /\ ~ht.made
    /\ ht' = [made |-> TRUE, expElementCt |-> expElementCt,
              len |-> tableLen(expElementCt), charSigned |-> charSigned]
    /\ UNCHANGED <<calls, np, Lab1Vars, AVLVars, TableVars>>

\* what one call retrieve(key) computes: hash(key) and hash(key) % len
retrieved(key, len, charSigned) ==
    [hash |-> hash(key, charSigned), index |-> slotOf(key, len, charSigned)]

\* cldManage& hashTable::retrieve(string key): return table[hash(key) % len]
HtRetrieve(key) ==
    /\ ht.made
    /\ Len(calls[key]) < MaxCalls
    /\ calls' = [calls EXCEPT
                   ![key] = Append(@, retrieved(key, ht.len, ht.charSigned))]
    /\ UNCHANGED <<ht, np, Lab1Vars, AVLVars, TableVars>>

\* int next_prime(int n)
NextPrime(n) ==
    /\ np' = [n |-> n, ret |-> next_prime(n)]
    /\ UNCHANGED <<ht, calls, Lab1Vars, AVLVars, TableVars>>

----------------------------------------------------------------------------
(* Lab_3-1.cpp: main's tree of doubles. *)

\* retrieve returns NAN when the value is not in the tree
NAN == [nan |-> TRUE]

double(d) == [number |-> d]

\* main: for (double i : {50, 30, 10, 40, 20, 100, 70, 90, 60, 80}) tree.insert(i);
MainInserts == <<50, 30, 10, 40, 20, 100, 70, 90, 60, 80>>

\* main: tree.remove(50); tree.remove(100);
MainRemoves == <<50, 100>>

\* the calls of main that change the tree, in order
MainCalls ==
    [k \in 1..(Len(MainInserts) + Len(MainRemoves)) |->
        IF k <= Len(MainInserts)
        THEN [op |-> "insert", v |-> MainInserts[k]]
        ELSE [op |-> "remove", v |-> MainRemoves[k - Len(MainInserts)]]]

Doubles == {MainInserts[k] : k \in 1..Len(MainInserts)}

OffScript == 0 - 1

follow(op, v) ==
    IF step1 # OffScript /\ step1 < Len(MainCalls)
       /\ MainCalls[step1 + 1] = [op |-> op, v |-> v]
    THEN step1 + 1 ELSE OffScript

\* void AVL::insert(double v)
Insert1(v) ==
    \E s \in {insert(mem1, head1, double(v))} :
        /\ run1 = "running"
        /\ mem1' = s.h
        /\ head1' = s.head
        /\ step1' = follow("insert", v)
        /\ UNCHANGED <<run1, AVLVars, TableVars, HashVars>>

\* void AVL::remove(double t)
Remove1(t) ==
    \E s \in {remove(mem1, head1, t)} :
        /\ run1 = "running"
        /\ mem1' = s.h
        /\ head1' = s.head
        /\ step1' = follow("remove", t)
        /\ UNCHANGED <<run1, AVLVars, TableVars, HashVars>>

\* void AVL::printInOrder(): printHelp(head) without a test of head; with
\* head == nullptr printHelp reads node->left through the null pointer
PrintInOrder1 ==
    /\ run1 = "running"
    /\ run1' = IF head1 = NULL THEN "SIGSEGV" ELSE "running"
    /\ UNCHANGED <<mem1, head1, step1, AVLVars, TableVars, HashVars>>

----------------------------------------------------------------------------
(* The specifications. *)

Init ==
    /\ mem1 = <<>> /\ head1 = NULL /\ run1 = "running" /\ step1 = 0
    /\ mem = <<>> /\ head = NULL /\ last = Call("AVL", 0, <<>>, 0)
    /\ tmem = <<>>
    /\ table = [a \in 0..(OuterLen - 1) |-> [b \in 0..(InnerLen - 1) |-> NULL]]
    /\ inserted = {}
    /\ ht = [made |-> FALSE]
    /\ calls = [key \in Keys |-> <<>>]
    /\ np = [n |-> 0 - 1, ret |-> 0]

\* Lab_3-2.cpp: every public call of AVL, on one AVL object
Next ==
    \/ \E p \in Persons : Insert(p)
    \/ \E t \in Numbers : Retrieve(t)
    \/ \E t \in Numbers : Remove(t)
    \/ \E nm \in Names, dang \in DanglingReads : RemoveFL(nm[1], nm[2], dang)
    \/ PrintAll
    \/ \E first_name \in Filters : PrintFN(first_name)

Spec == Init /\ [][Next]_vars

\* Lab_3-1.cpp: the public calls main makes, in any order and number
NextLab1 ==
    \/ \E v \in Doubles : Insert1(v)
    \/ \E t \in Doubles : Remove1(t)
    \/ PrintInOrder1

SpecLab1 == Init /\ [][NextLab1]_vars

\* Lab_3-2.cpp: the insertions of main's reading loop into the table
NextTable == \E p \in TPersons : TableInsert(p)

SpecTable == Init /\ [][NextTable]_vars

\* Lab_3-2.cpp: one hashTable object under its constructor and retrieve
NextHashTable ==
    \/ \E e \in (0 - MaxExp)..MaxExp, charSigned \in BOOLEAN :
          HashTable(e, charSigned)
    \/ \E key \in Keys : HtRetrieve(key)

SpecHashTable == Init /\ [][NextHashTable]_vars

\* Lab_3-2.cpp: calls of next_prime
NextNextPrime == \E n \in 0..MaxPrimeArg : NextPrime(n)

SpecNextPrime == Init /\ [][NextNextPrime]_vars

----------------------------------------------------------------------------
(* What the claims speak of. *)

\* the cells reachable from node, in pre-order
Reach(h, node) == walk(h, <<node>>, <<>>)

ReachSet(h, node) == {Reach(h, node)[i] : i \in 1..Len(Reach(h, node))}

\* H: the actual height of the subtree at node (empty = 0, leaf = 1)
RECURSIVE H(_, _)
H(h, node) ==
    IF node = NULL THEN 0 ELSE 1 + max(H(h, h[node].left), H(h, h[node].right))

\* the values in left-node-right order
RECURSIVE InOrder(_, _)
InOrder(h, node) ==
    IF node = NULL THEN <<>>
    ELSE InOrder(h, h[node].left) \o <<h[node].val>> \o InOrder(h, h[node].right)

Range(s) == {s[i] : i \in 1..Len(s)}

KeysOf(h, node) == {v.number : v \in Range(InOrder(h, node))}

Balanced(h, node) ==
    \A n \in ReachSet(h, node) :
        H(h, h[n].left) - H(h, h[n].right) \in {-1, 0, 1}

HeightsCorrect(h, node) ==
    \A n \in ReachSet(h, node) :
        h[n].height = 1 + max(H(h, h[n].left), H(h, h[n].right))

StrictlyIncreasing(s) ==
    \A i \in 1..Len(s) - 1 : s[i].number < s[i + 1].number

\* the shape of the tree at node: who is whose left and right child
RECURSIVE Shape(_, _)
Shape(h, node) ==
    IF node = NULL THEN <<>>
    ELSE <<Shape(h, h[node].left), h[node].val, Shape(h, h[node].right)>>

----------------------------------------------------------------------------
(* The claims. *)

\* C1: after any sequence of insert and remove calls from the empty tree,
\* the actual heights of the two subtrees of every node differ by at most 1.
C1_Balanced == Balanced(mem1, head1)

\* C2: after every insert or remove call, the cached height of every node is
\* 1 + the larger of the actual heights of its two subtrees.
C2_CachedHeights == HeightsCorrect(mem1, head1)

\* C3: the in-order traversal of every tree that insert and remove calls
\* produce yields the keys in strictly increasing order, none twice.
C3_InOrderSorted ==
    head1 # NULL => StrictlyIncreasing(printHelp(mem1, head1, <<32>>))

\* after main's ten inserts and remove(50), the removal of a node with two
\* children
C3_Witness ==
    /\ step1 = Len(MainInserts) + 1
    /\ Len(printHelp(mem1, head1, <<32>>)) = Len(MainInserts) - 1
    /\ StrictlyIncreasing(printHelp(mem1, head1, <<32>>))

\* C10: main's ten inserts give the in-order sequence 10, 20, ..., 100; the
\* two removes that follow give 10, 20, 30, 40, 60, 70, 80, 90 in a tree
\* that is height-balanced at every node.
C10_MainScenario ==
    /\ step1 = Len(MainInserts) =>
          printHelp(mem1, head1, <<32>>)
              = [k \in 1..10 |-> double(10 * k)]
    /\ step1 = Len(MainCalls) =>
          /\ printHelp(mem1, head1, <<32>>)
                = <<double(10), double(20), double(30), double(40),
                    double(60), double(70), double(80), double(90)>>
          /\ Balanced(mem1, head1)

C10_Witness == step1 = Len(MainCalls)

\* C4: inserting a record whose key is not stored adds exactly that key, and
\* find of the key then returns the inserted record, not the sentinel.
C4_InsertThenFind ==
    [][(last'.op = "insert" /\ last'.arg.number \notin KeysOf(mem, head)) =>
          /\ KeysOf(mem', head') = KeysOf(mem, head) \cup {last'.arg.number}
          /\ retrieve(mem', head', last'.arg.number) = last'.arg
          /\ retrieve(mem', head', last'.arg.number) # NotFound]_vars

C4_Witness ==
    /\ last.op = "insert"
    /\ last.out = <<>>
    /\ Cardinality(KeysOf(mem, head)) = 4
    /\ retrieve(mem, head, last.arg.number) = last.arg

\* C5: removing a stored key removes exactly that key, whether its node had
\* zero, one or two children, and find of the key then returns the sentinel.
C5_RemoveThenFind ==
    [][(last'.op = "remove" /\ last'.arg \in KeysOf(mem, head)) =>
          /\ KeysOf(mem', head') = KeysOf(mem, head) \ {last'.arg}
          /\ retrieve(mem', head', last'.arg) = NotFound]_vars

C5_Witness ==
    /\ last.op = "remove"
    /\ last.ret = 2
    /\ Cardinality(KeysOf(mem, head)) = 3
    /\ retrieve(mem, head, last.arg) = NotFound

\* C6: inserting a value whose key is already stored changes nothing: not
\* the key set, the in-order sequence of stored values, or the shape.
C6_DuplicateInsert ==
    [][\A v \in KeysOf(mem1, head1) :
          Insert1(v) => /\ KeysOf(mem1', head1') = KeysOf(mem1, head1)
                        /\ InOrder(mem1', head1') = InOrder(mem1, head1)
                        /\ Shape(mem1', head1') = Shape(mem1, head1)]_vars

\* C7: find of a key that is not stored returns the sentinel, remove of a key
\* that is not stored reports not found, and both leave the tree as it was:
\* same nodes, same shape, same cached heights.
C7_MissingKey ==
    [][/\ (last'.op = "retrieve" /\ last'.arg \notin KeysOf(mem, head)) =>
             (last'.ret = NotFound /\ mem' = mem /\ head' = head)
       /\ (last'.op = "remove" /\ last'.arg \notin KeysOf(mem, head)) =>
             (last'.out = <<"Node not found!">> /\ mem' = mem /\ head' = head)]_vars

\* C8: removeFL(fn, ln) leaves exactly the records whose (first_name,
\* last_name) is not (fn, ln).
C8_RemoveFL ==
    [][last'.op = "removeFL" =>
          Range(InOrder(mem', head'))
            = {r \in Range(InOrder(mem, head)) :
                  <<r.first_name, r.last_name>> # last'.arg}]_vars

\* the AVL that table.retrieve(r.first_name).retrieve(r.last_name) returns
treeOf(r) == table[outerSlot(r.first_name)][innerSlot(r.last_name)]

\* C9: every record inserted into the two-level table is afterwards found,
\* itself, by its number in the tree at get(first).get(last), whatever
\* records under other names were inserted before or after it.
C9_TableFind ==
    \A r \in inserted : retrieve(tmem, treeOf(r), r.number) = r

IsPrime(p) == p > 1 /\ \A d \in 2..(p - 1) : p % d # 0

\* p is the smallest prime that is at least m
SmallestPrimeAtLeast(p, m) ==
    IsPrime(p) /\ p >= m /\ \A q \in m..(p - 1) : ~IsPrime(q)

\* C11: for every expected element count e >= 1 the table length is the
\* smallest prime p with p >= ceil(e / 0.75) + 1.
C11_CeilSizing ==
    (ht.made /\ ht.expElementCt >= 1) =>
        SmallestPrimeAtLeast(ht.len, ((4 * ht.expElementCt + 2) \div 3) + 1)

\* C11, amended: for every expected element count e >= 1 the table length
\* is the smallest prime p with p >= floor(e / 0.75) + 1, which is the
\* smallest prime greater than e / 0.75.
C11_FloorSizing ==
    (ht.made /\ ht.expElementCt >= 1) =>
        SmallestPrimeAtLeast(ht.len, ((4 * ht.expElementCt) \div 3) + 1)

\* e = 5: e / 0.75 + 1 is 7.67; the length is 7, and ceil(6.67) + 1 is 8
C11_Witness == ht.made /\ ht.expElementCt = 5 /\ ht.len = 7

\* C12: constructing a hash table with a non-positive expected element
\* count fails: no table comes of it.
C12_FailFast == ht.made => ht.expElementCt > 0

\* C13: for every n >= 0, next_prime(n) returns a prime p >= n with no prime
\* q such that n <= q < p, although the small primes are generated once,
\* from the initial n.
C13_NextPrime == np.n >= 0 => SmallestPrimeAtLeast(np.ret, np.n)

\* next_prime(119): the primes up to sqrt(119) + 1 = 11 are generated, 119
\* and 121 = 11 * 11 are rejected, and the result is 127
C13_Witness == np.n = 119 /\ np.ret = 127

\* every index retrieve returned is an index of the table, and the calls with
\* one key all returned the same index
SlotsStable ==
    \A key \in Keys : \A i \in 1..Len(calls[key]) :
        /\ calls[key][i].index \in 0..(ht.len - 1)
        /\ calls[key][i].index = calls[key][1].index

\* C14: after construction get(key) returns, for every key, a slot whose
\* index is at least 0 and less than len; len never changes; and two calls
\* with the same key return the same slot, whether or not the key was used
\* before.
C14_Retrieve ==
    [][/\ ht.made => (ht'.made /\ ht'.len = ht.len)
       /\ SlotsStable']_vars

\* a key with a byte above 127, passed twice to a table of 11 slots built
\* where char is signed
C14_Witness ==
    /\ ht.made /\ ht.charSigned /\ ht.len = 11
    /\ Len(calls[<<195, 169>>]) = 2
    /\ Len(calls[<<>>]) = 1

\* 64-bit FNV-1a: each byte, a value 0..255, is XORed into the low 8 bits of
\* the accumulator, which is then multiplied by 1099511628211 modulo 2^64
RECURSIVE Fnv1aFrom(_, _, _)
Fnv1aFrom(acc, key, k) ==
    IF k > Len(key) THEN acc
    ELSE Fnv1aFrom(timesPrime([acc EXCEPT ![1] = xor8(@, key[k])]), key, k + 1)

Fnv1a(key) == Fnv1aFrom(fnv_offset_basis, key, 1)

\* C15: for every key, bytes 128..255 included, hash(key) is the 64-bit
\* FNV-1a value of the key's bytes taken as unsigned values.
C15_Fnv1a ==
    \A key \in Keys : \A i \in 1..Len(calls[key]) :
        calls[key][i].hash = Fnv1a(key)

\* the BST order on number, balance factors in {-1, 0, 1}, cached heights
\* that are the actual heights
WellFormed(h, node) ==
    /\ StrictlyIncreasing(InOrder(h, node))
    /\ Balanced(h, node)
    /\ HeightsCorrect(h, node)

\* C16: when the tree satisfies the BST order and the AVL balance invariant,
\* after removeFL(fn, ln) it again satisfies the BST order on number, and
\* every node has a balance factor in {-1, 0, 1} and a correct cached height.
C16_RemoveFLKeepsAVL ==
    [][(last'.op = "removeFL" /\ WellFormed(mem, head)) =>
          WellFormed(mem', head')]_vars

\* C17: printFN(f) writes, in ascending order of number, exactly the records
\* whose first_name is f, whatever string f is; printAll writes every record
\* in ascending order of number.
withFirstName(s, f) ==
    LET matches(p) == p.first_name = f IN SelectSeq(s, matches)

C17_PrintFilter ==
    /\ last.op = "printFN" =>
          /\ last.out = withFirstName(InOrder(mem, head), last.arg)
          /\ StrictlyIncreasing(last.out)
    /\ last.op = "printAll" =>
          /\ last.out = InOrder(mem, head)
          /\ StrictlyIncreasing(last.out)

\* the links (n, side) of the nodes in R that point at node c
parentLinks(h, R, c) ==
    {l \in R \X {"left", "right"} :
        (IF l[2] = "left" THEN h[l[1]].left ELSE h[l[1]].right) = c}

\* the nodes R reachable from root form a tree of live nodes: none is freed,
\* the root has no parent link and every other node exactly one
treeOver(h, root, R) ==
    /\ \A n \in R : h[n].alloc
    /\ \A n \in R :
          Cardinality(parentLinks(h, R, n)) = IF n = root THEN 0 ELSE 1

TreeShaped(h, root) == treeOver(h, root, ReachSet(h, root))

\* C18: after any sequence of insert, remove and removeFL the nodes reachable
\* from head form a tree: the root has no parent link, every other reachable
\* node has exactly one (so there is no cycle and no sharing), and no freed
\* node is reachable.
C18_TreeShaped == TreeShaped(mem, head)

\* a remove has spliced out a node that had exactly one child, and the tree
\* still has a root and a child
C18_Witness ==
    /\ last.op = "remove"
    /\ last.ret = 1
    /\ Cardinality(ReachSet(mem, head)) >= 2
    /\ TreeShaped(mem, head)

\* C19: printInOrder is safe in every reachable state of the Lab_3-1 tree,
\* the empty tree included: no call of it reads through a null node, so the
\* program is still running after it.
C19_PrintInOrderSafe == run1 = "running"

====
